---- MODULE Spec2Model ----
(***************************************************************************)
(* State-machine model of the Enigma machine of enigma.py, tools.py and    *)
(* errorHandling.py.  A Python str is a sequence of one-character strings; *)
(* a Python list is a sequence, read through PyIndex with Python's index   *)
(* rules (0-based, a negative index counts from the end).  A call returns  *)
(* a record [raised, value]: raised = "none" and the returned value, or    *)
(* the name of the exception that left the call.                           *)
(***************************************************************************)
EXTENDS Integers, Sequences, FiniteSets, TLC

VARIABLES
    rotorsList,        \* EnigmaMachine.rotorsList: the Rotor objects, left to right
    plugBoard,         \* EnigmaMachine.plugBoard: a Plugboard object or None
    reflector,         \* EnigmaMachine.reflector: a reflector object or None
    initialPositions,  \* fullEncode's local snapshot of the last keypress
    hasTurned,         \* fullEncode's local flags of the last keypress
    keypresses,        \* ghost: the fullEncode calls that have turned the rotors
    lastCall           \* ghost: the last call made, its arguments and its outcome

vars == <<rotorsList, plugBoard, reflector, initialPositions, hasTurned, keypresses, lastCall>>

-----------------------------------------------------------------------------
(* Python values *)

Ok(v) == [raised |-> "none", value |-> v]

Raise(e) == [raised |-> e, value |-> ""]

\* an exception carrying the characters it names (its char attribute)
RaiseChar(e, char) == [raised |-> e, value |-> char]

\* "r = <call>; <rest>": the call is evaluated once; an exception it raises
\* leaves the caller, and otherwise the caller goes on with what it returned
Try(result, Continue(_)) ==
    CHOOSE out \in { IF r.raised # "none" THEN r ELSE Continue(r.value) : r \in {result} } : TRUE

\* "x = <expression>; <rest>": the expression is evaluated once
Bind(expression, Continue(_)) ==
    CHOOSE out \in { Continue(x) : x \in {expression} } : TRUE

None == [type |-> "NoneType"]

PyFalse == "False"

\* list[i] with Python's rules, for -Len(list) <= i < Len(list)
PyIndex(list, i) == IF i >= 0 THEN list[i + 1] ELSE list[Len(list) + i + 1]

\* list[i] = v
PySetItem(list, i, v) ==
    IF i >= 0 THEN [list EXCEPT ![i + 1] = v]
    ELSE [list EXCEPT ![Len(list) + i + 1] = v]

\* x in list
PyIn(x, list) == \E i \in 1..Len(list) : list[i] = x

\* list.index(x): the 0-based place of the first x (x is in list)
RECURSIVE PyIndexFrom(_, _, _)
PyIndexFrom(list, x, i) == IF list[i + 1] = x THEN i ELSE PyIndexFrom(list, x, i + 1)

PyIndexOf(list, x) == PyIndexFrom(list, x, 0)

\* list.insert(i, x) for 0 <= i <= Len(list)
PyInsert(list, i, x) == SubSeq(list, 1, i) \o <<x>> \o SubSeq(list, i + 1, Len(list))

\* reversed(list)
PyReversed(list) == [i \in 1..Len(list) |-> list[Len(list) + 1 - i]]

genericMapping ==
    <<"A", "B", "C", "D", "E", "F", "G", "H", "I", "J", "K", "L", "M",
      "N", "O", "P", "Q", "R", "S", "T", "U", "V", "W", "X", "Y", "Z">>

lowerLetters ==
    <<"a", "b", "c", "d", "e", "f", "g", "h", "i", "j", "k", "l", "m",
      "n", "o", "p", "q", "r", "s", "t", "u", "v", "w", "x", "y", "z">>

\* the characters [a-zA-Z]
LetterSet == { genericMapping[i] : i \in 1..26 } \cup { lowerLetters[i] : i \in 1..26 }

IsLetter(c) == c \in LetterSet

\* str.upper() and str.lower() of each letter
upperOf ==
    [c \in LetterSet |->
        IF PyIn(c, lowerLetters) THEN genericMapping[PyIndexOf(lowerLetters, c) + 1] ELSE c]

lowerOf ==
    [c \in LetterSet |->
        IF PyIn(c, genericMapping) THEN lowerLetters[PyIndexOf(genericMapping, c) + 1] ELSE c]

\* str.upper() and str.lower() of one character
upper(c) == IF c \in LetterSet THEN upperOf[c] ELSE c

lower(c) == IF c \in LetterSet THEN lowerOf[c] ELSE c

\* genericMapping.index(c) of each upper-case letter
genericIndexOf == [c \in { genericMapping[i] : i \in 1..26 } |-> PyIndexOf(genericMapping, c)]

\* self.genericMapping.index(c), c an upper-case letter
GenericIndex(c) == genericIndexOf[c]

upperStr(s) == [i \in 1..Len(s) |-> upper(s[i])]

lowerStr(s) == [i \in 1..Len(s) |-> lower(s[i])]

-----------------------------------------------------------------------------
(* The wirings of the catalog *)

mappingRotorI ==
    <<"E", "K", "M", "F", "L", "G", "D", "Q", "V", "Z", "N", "T", "O",
      "W", "Y", "H", "X", "U", "S", "P", "A", "I", "B", "R", "C", "J">>

mappingRotorII ==
    <<"A", "J", "D", "K", "S", "I", "R", "U", "X", "B", "L", "H", "W",
      "T", "M", "C", "Q", "G", "Z", "N", "P", "Y", "F", "V", "O", "E">>

mappingRotorIII ==
    <<"B", "D", "F", "H", "J", "L", "C", "P", "R", "T", "X", "V", "Z",
      "N", "Y", "E", "I", "W", "G", "A", "K", "M", "U", "S", "Q", "O">>

mappingRotorIV ==
    <<"E", "S", "O", "V", "P", "Z", "J", "A", "Y", "Q", "U", "I", "R",
      "H", "X", "L", "N", "F", "T", "G", "K", "D", "C", "M", "W", "B">>

mappingRotorV ==
    <<"V", "Z", "B", "R", "G", "I", "T", "Y", "U", "P", "S", "D", "N",
      "H", "L", "X", "A", "W", "M", "J", "Q", "O", "F", "E", "C", "K">>

mappingRotorBeta ==
    <<"L", "E", "Y", "J", "V", "C", "N", "I", "X", "W", "P", "B", "Q",
      "M", "D", "R", "T", "A", "K", "Z", "G", "F", "U", "H", "O", "S">>

mappingRotorGamma ==
    <<"F", "S", "O", "K", "A", "N", "U", "E", "R", "H", "M", "B", "T",
      "I", "Y", "C", "W", "L", "Q", "P", "Z", "X", "V", "G", "J", "D">>

mappingRotorVI ==
    <<"J", "P", "G", "V", "O", "U", "M", "F", "Y", "Q", "B", "E", "N",
      "H", "Z", "R", "D", "K", "A", "S", "X", "L", "I", "C", "T", "W">>

mappingRotorVII ==
    <<"N", "Z", "J", "H", "G", "R", "C", "X", "M", "Y", "S", "W", "B",
      "O", "U", "F", "A", "I", "V", "L", "P", "E", "K", "Q", "D", "T">>

mappingRotorVIII ==
    <<"F", "K", "Q", "H", "T", "L", "X", "O", "C", "B", "J", "S", "P",
      "D", "Z", "R", "A", "M", "E", "W", "N", "I", "U", "Y", "G", "V">>

mappingReflectorA ==
    <<"E", "J", "M", "Z", "A", "L", "Y", "X", "V", "B", "W", "F", "C",
      "R", "Q", "U", "O", "N", "T", "S", "P", "I", "K", "H", "G", "D">>

mappingReflectorB ==
    <<"Y", "R", "U", "H", "Q", "S", "L", "D", "P", "X", "N", "G", "O",
      "K", "M", "I", "E", "B", "F", "Z", "C", "W", "V", "J", "A", "T">>

mappingReflectorC ==
    <<"F", "V", "P", "J", "I", "A", "O", "Y", "E", "D", "R", "Z", "X",
      "W", "G", "C", "T", "K", "U", "Q", "S", "B", "N", "M", "H", "L">>

mappingReflectorBThin ==
    <<"E", "N", "K", "Q", "A", "U", "Y", "W", "J", "I", "C", "O", "P",
      "B", "L", "M", "D", "X", "Z", "V", "F", "T", "H", "R", "G", "S">>

mappingReflectorCThin ==
    <<"E", "N", "K", "Q", "A", "U", "Y", "W", "J", "I", "C", "O", "P",
      "B", "L", "M", "D", "X", "Z", "V", "F", "T", "H", "R", "G", "S">>
-----------------------------------------------------------------------------
(* tools.py *)

\* positionLooper with the modulus base + 1
positionLooperNextBase(inputNumber, base) ==
    IF inputNumber >= 0 /\ inputNumber <= base THEN inputNumber
    ELSE IF inputNumber < 0 THEN (inputNumber % (base + 1)) + 1
    ELSE (inputNumber % (base + 1)) - 1

positionLooper(inputNumber, base) ==
    IF inputNumber >= 0 /\ inputNumber <= base THEN inputNumber
    ELSE IF inputNumber < 0 THEN (inputNumber % base) + 1
    ELSE (inputNumber % base) - 1

-----------------------------------------------------------------------------
(* errorHandling.py: the inputValidator decorator.  Each operator returns  *)
(* the cleaned argument handed to the decorated function, or the error.    *)

\* "".join(re.findall("[a-zA-Z]+", currentInput))
lettersClean(currentInput) == SelectSeq(currentInput, IsLetter)

\* component 'encodingElement': exactly one letter, handed on in lower case
validateEncodingElement(currentInput) ==
    Bind(lettersClean(currentInput), LAMBDA clean :
        IF Len(currentInput) > Len(clean) THEN Raise("InputError")
        ELSE IF Len(clean) # 1 THEN Raise("InputError")
        ELSE Ok(lowerStr(clean)))

\* component 'inputElement': exactly two letters, the two characters different
validateInputElement(currentInput) ==
    Bind(lettersClean(currentInput), LAMBDA clean :
        IF Len(currentInput) > Len(clean) THEN Raise("InputError")
        ELSE IF Len(clean) # 2 THEN Raise("InputError")
        ELSE IF clean[1] = clean[2] THEN Raise("InputError")
        ELSE Ok(lowerStr(clean)))

\* component 'ringSetting', for an int argument: the digits of str(n) are
\* those of |n|, and a sign makes the input longer than the cleaned number
validateRingSetting(currentInput) ==
    LET inputClean == IF currentInput < 0 THEN -currentInput ELSE currentInput
        signed == currentInput < 0
    IN  IF inputClean < 1 \/ inputClean > 26 \/ signed THEN Raise("InputError")
        ELSE Ok(inputClean)

-----------------------------------------------------------------------------
(* enigma.py: Rotor *)

\* Rotor.set_ring_setting under its validator
set_ring_setting(ringSetting) ==
    Try(validateRingSetting(ringSetting), LAMBDA clean : Ok(clean - 1))

\* Rotor.set_initial_pos under its validator
set_initial_pos(initialPos) ==
    Try(validateEncodingElement(initialPos), LAMBDA clean : Ok(GenericIndex(upper(clean[1]))))

\* Rotor.__init__ of a rotor that is not a reflector, with the subclass's
\* notch and mapping assigned after it
RotorInit(ringSetting, initialPos, rotorType, name, notch, mapping) ==
    Try(set_ring_setting(ringSetting), LAMBDA rs :
    Try(set_initial_pos(initialPos), LAMBDA ip :
        Ok([type |-> "Rotor", name |-> name, rotorType |-> rotorType,
            notch |-> notch, mapping |-> mapping,
            ringSetting |-> rs, initialPos |-> ip, currentPos |-> ip])))

\* Rotor.__init__ with rotorType 'reflector': nothing is validated
ReflectorInit(name, mapping) ==
    [type |-> "Rotor", name |-> name, rotorType |-> "reflector",
     notch |-> <<PyFalse>>, mapping |-> mapping,
     ringSetting |-> "None", initialPos |-> "None", currentPos |-> "None"]

\* the substitution step of Rotor.encode: 'right' reads the wiring at the
\* letter's generic index, 'left' reads the generic alphabet at the letter's
\* place in the wiring (a ValueError when the wiring lacks the letter)
RotorSubstitute(self, letterInputOffset, direction) ==
    IF direction = "right"
    THEN Ok(PyIndex(self.mapping, GenericIndex(letterInputOffset)))
    ELSE IF ~PyIn(letterInputOffset, self.mapping) THEN Raise("ValueError")
    ELSE Ok(PyIndex(genericMapping, PyIndexOf(self.mapping, letterInputOffset)))

\* the body of Rotor.encode: letterInput is the validated lower-case letter
RotorEncodeBody(self, letterInput, direction) ==
    IF self.rotorType = "reflector"
    THEN Ok(lower(PyIndex(self.mapping, GenericIndex(upper(letterInput)))))
    ELSE
        LET offset == self.currentPos - self.ringSetting
            inputIndex == GenericIndex(upper(letterInput))
            inputIndexOffset == positionLooper(inputIndex + offset, 25)
            letterInputOffset == PyIndex(genericMapping, inputIndexOffset)
        IN  Try(RotorSubstitute(self, letterInputOffset, direction), LAMBDA letter :
                IF letter \notin DOMAIN genericIndexOf THEN Raise("ValueError")
                ELSE
                    LET outputIndexOffset == positionLooper(GenericIndex(letter) - offset, 25)
                        returnLetter == PyIndex(genericMapping, outputIndexOffset)
                    IN  Ok(upper(returnLetter)))

\* Rotor.encode(letterInput, direction, printFlag) under its validator; the
\* printStatus calls change nothing
RotorEncode(self, letterInput, direction) ==
    Try(validateEncodingElement(letterInput), LAMBDA clean :
        RotorEncodeBody(self, clean[1], direction))

\* the catalog rotor classes: each passes its rotorType and name to
\* Rotor.__init__ and then sets its notch list and its mapping
RotorI(ringSetting, initialPos) ==
    RotorInit(ringSetting, initialPos, "notchrotor", "I", <<"Q">>, mappingRotorI)

RotorII(ringSetting, initialPos) ==
    RotorInit(ringSetting, initialPos, "notchrotor", "II", <<"E">>, mappingRotorII)

RotorIII(ringSetting, initialPos) ==
    RotorInit(ringSetting, initialPos, "notchrotor", "III", <<"V">>, mappingRotorIII)

RotorIV(ringSetting, initialPos) ==
    RotorInit(ringSetting, initialPos, "notchrotor", "IV", <<"J">>, mappingRotorIV)

RotorV(ringSetting, initialPos) ==
    RotorInit(ringSetting, initialPos, "notchrotor", "V", <<"Z">>, mappingRotorV)

RotorBeta(ringSetting, initialPos) ==
    RotorInit(ringSetting, initialPos, "notchlessrotor", "beta", <<PyFalse>>, mappingRotorBeta)

RotorGamma(ringSetting, initialPos) ==
    RotorInit(ringSetting, initialPos, "notchlessrotor", "gamma", <<PyFalse>>, mappingRotorGamma)

RotorVI(ringSetting, initialPos) ==
    RotorInit(ringSetting, initialPos, "notchrotor", "VI", <<"Z", "M">>, mappingRotorVI)

RotorVII(ringSetting, initialPos) ==
    RotorInit(ringSetting, initialPos, "notchrotor", "VII", <<"Z", "M">>, mappingRotorVII)

RotorVIII(ringSetting, initialPos) ==
    RotorInit(ringSetting, initialPos, "notchrotor", "VIII", <<"Z", "M">>, mappingRotorVIII)

\* some element occurs twice: sorted(elementsCount.values())[-1] > 1
HasRepeats(s) == \E i, j \in 1..Len(s) : i < j /\ s[i] = s[j]

\* a str argument left at its default None
NoneStr == <<"None">>

\* RotorCustom.__init__(ringSetting, initialPos, mapping, notches=None);
\* sorted(...)[-1] of an empty string's counts is an IndexError
RotorCustom(ringSetting, initialPos, mapping, notches) ==
    LET rotorType == IF notches = NoneStr THEN "notchlessrotor" ELSE "notchrotor"
        itsNotch == IF notches = NoneStr THEN <<PyFalse>> ELSE notches
    IN  IF notches # NoneStr /\ Len(notches) = 0 THEN Raise("IndexError")
        ELSE IF notches # NoneStr /\ HasRepeats(notches) THEN Raise("ValueError")
        ELSE IF notches # NoneStr /\ Len(notches) > 26 THEN Raise("ValueError")
        ELSE Try(RotorInit(ringSetting, initialPos, rotorType, "custom", itsNotch, mapping),
                 LAMBDA made :
                    IF Len(mapping) = 0 THEN Raise("IndexError")
                    ELSE IF HasRepeats(mapping) THEN Raise("ValueError")
                    ELSE Ok(made))

ReflectorA == ReflectorInit("A", mappingReflectorA)

ReflectorB == ReflectorInit("B", mappingReflectorB)

ReflectorC == ReflectorInit("C", mappingReflectorC)

ReflectorBThin == ReflectorInit("BThin", mappingReflectorBThin)

ReflectorCThin == ReflectorInit("BThin", mappingReflectorCThin)

\* ReflectorCustom.__init__(mapping)
ReflectorCustom(mapping) ==
    IF Len(mapping) = 0 THEN Raise("IndexError")
    ELSE IF HasRepeats(mapping) THEN Raise("ValueError")
    ELSE Ok(ReflectorInit("custom", mapping))

-----------------------------------------------------------------------------
(* enigma.py: PlugLead and Plugboard *)

\* PlugLead.__init__(letters) under its validator
PlugLead(letters) ==
    Try(validateInputElement(letters), LAMBDA clean :
        Ok([type |-> "PlugLead", lettersList |-> lowerStr(clean)]))

\* PlugLead.encode(letterInput) under its validator; [-1] of an empty
\* filter result is an IndexError
PlugLeadEncode(self, letterInput) ==
    Try(validateEncodingElement(letterInput), LAMBDA clean :
        IF ~PyIn(clean[1], self.lettersList) THEN Ok(upper(clean[1]))
        ELSE Bind(SelectSeq(self.lettersList, LAMBDA x : x # clean[1]), LAMBDA others :
                IF Len(others) = 0 THEN Raise("IndexError")
                ELSE Ok(upper(PyIndex(others, -1)))))

\* Plugboard.__init__(numPlugLeads=10)
Plugboard(numPlugLeads) ==
    IF numPlugLeads > 13 THEN Raise("ValueError")
    ELSE Ok([type |-> "Plugboard", plugLeadsLetters |-> <<>>, plugLeads |-> <<>>,
             numPlugLeads |-> numPlugLeads])

\* PlugboardAdd whose loop looks at the lead's first letter only
PlugboardAddFirstLetterOnly(self, lead) ==
    IF Len(self.plugLeads) = self.numPlugLeads
    THEN RaiseChar("PlugboardError", upperStr(lead.lettersList))
    ELSE IF PyIn(lead.lettersList[1], self.plugLeadsLetters)
    THEN RaiseChar("PlugboardError", <<upper(lead.lettersList[1])>>)
    ELSE Ok([self EXCEPT !.plugLeadsLetters = self.plugLeadsLetters \o lead.lettersList,
                         !.plugLeads = Append(self.plugLeads, lead)])

\* PlugboardAdd that is full one lead later: len(self.plugLeads) == numPlugLeads + 1
PlugboardAddOneMore(self, lead) ==
    IF Len(self.plugLeads) = self.numPlugLeads + 1
    THEN RaiseChar("PlugboardError", upperStr(lead.lettersList))
    ELSE IF \E i \in 1..Len(lead.lettersList) : PyIn(lead.lettersList[i], self.plugLeadsLetters)
    THEN RaiseChar("PlugboardError", <<upper(lead.lettersList[1])>>)
    ELSE Ok([self EXCEPT !.plugLeadsLetters = self.plugLeadsLetters \o lead.lettersList,
                         !.plugLeads = Append(self.plugLeads, lead)])

\* Plugboard.add(PlugLead): the board after the call, or the error, which
\* carries the letters it names and leaves the board as it was
PlugboardAdd(self, lead) ==
    IF Len(self.plugLeads) = self.numPlugLeads
    THEN RaiseChar("PlugboardError", upperStr(lead.lettersList))
    ELSE IF \E i \in 1..Len(lead.lettersList) : PyIn(lead.lettersList[i], self.plugLeadsLetters)
    THEN LET first == CHOOSE i \in 1..Len(lead.lettersList) :
                          /\ PyIn(lead.lettersList[i], self.plugLeadsLetters)
                          /\ \A j \in 1..(i - 1) : ~PyIn(lead.lettersList[j], self.plugLeadsLetters)
         IN  RaiseChar("PlugboardError", <<upper(lead.lettersList[first])>>)
    ELSE Ok([self EXCEPT !.plugLeadsLetters = self.plugLeadsLetters \o lead.lettersList,
                         !.plugLeads = Append(self.plugLeads, lead)])

\* Plugboard.encode(letterInput) under its validator
PlugboardEncode(self, letterInput) ==
    Try(validateEncodingElement(letterInput), LAMBDA clean :
        IF PyIn(clean[1], self.plugLeadsLetters)
        THEN PlugLeadEncode(
                 PyIndex(self.plugLeads, PyIndexOf(self.plugLeadsLetters, clean[1]) \div 2),
                 clean)
        ELSE Ok(upper(clean[1])))

-----------------------------------------------------------------------------
(* enigma.py: EnigmaMachine.fullEncode *)

\* notchlessToTheRight, indexed like the Python list (entry x-1 for x)
notchlessToTheRight(rotors) ==
    [x \in 1..Len(rotors) |->
        IF x = 1 THEN FALSE ELSE PyIndex(rotors, -x + 1).rotorType = "notchless"]

\* TurnRotor that stores the new position in initialPos as well
TurnRotorMovesInitialPos(rotors, i) ==
    PySetItem(rotors, i,
              [PyIndex(rotors, i) EXCEPT
                  !.currentPos = positionLooper(PyIndex(rotors, i).currentPos + 1, 25),
                  !.initialPos = positionLooper(PyIndex(rotors, i).currentPos + 1, 25)])

\* rotorsList[i].currentPos = positionLooper(rotorsList[i].currentPos+1, 25)
TurnRotor(rotors, i) ==
    PySetItem(rotors, i,
              [PyIndex(rotors, i) EXCEPT
                  !.currentPos = positionLooper(PyIndex(rotors, i).currentPos + 1, 25)])

\* NotchEngaged without the test "r in [1,2]": any rotor on its notch engages
NotchEngagedAnyRotor(rotors, snapshot, r) ==
    /\ PyIn(PyIndex(genericMapping, PyIndex(snapshot, -r)), PyIndex(rotors, -r).notch)
    /\ ~PyIndex(notchlessToTheRight(rotors), -r)

\* NotchEngaged reading the rotor's position as it is now, not the snapshot
NotchEngagedCurrentPos(rotors, snapshot, r) ==
    /\ PyIn(PyIndex(genericMapping, PyIndex(rotors, -r).currentPos), PyIndex(rotors, -r).notch)
    /\ r \in {1, 2}
    /\ ~PyIndex(notchlessToTheRight(rotors), -r)

\* the condition under which iteration r of the turning loop turns rotors
NotchEngaged(rotors, snapshot, r) ==
    LET currentPos == PyIndex(snapshot, -r)
        letterCurrentPos == PyIndex(genericMapping, currentPos)
        notch == PyIndex(rotors, -r).notch
    IN  /\ PyIn(letterCurrentPos, notch)
        /\ r \in {1, 2}
        /\ ~PyIndex(notchlessToTheRight(rotors), -r)

\* TurnOwn that leaves the rotor on its notch where it is
TurnOwnForgotten(st, r) == st

\* TurnOwn without the test of hasTurned[-r]
TurnOwnUnflagged(st, r) ==
    [rotors |-> TurnRotor(st.rotors, -r), turned |-> PySetItem(st.turned, -r, TRUE)]

\* "if not hasTurned[-r]": the rotor on its notch turns unless it has
TurnOwn(st, r) ==
    IF ~PyIndex(st.turned, -r)
    THEN [rotors |-> TurnRotor(st.rotors, -r), turned |-> PySetItem(st.turned, -r, TRUE)]
    ELSE st

\* TurnLeft that leaves the rotor to the left where it is
TurnLeftForgotten(st, r) == st

\* "if r <= 2": the rotor to the left turns
TurnLeft(st, r) ==
    IF r <= 2
    THEN [rotors |-> TurnRotor(st.rotors, -r - 1), turned |-> PySetItem(st.turned, -r - 1, TRUE)]
    ELSE st

\* one iteration of "for r in range(1,numRotors+1)"; st = [rotors, turned]
TurnIteration(st, snapshot, r) ==
    IF NotchEngaged(st.rotors, snapshot, r)
    THEN Bind(TurnOwn(st, r), LAMBDA own : TurnLeft(own, r))
    ELSE st

RECURSIVE TurnLoop(_, _, _)
TurnLoop(st, snapshot, r) ==
    IF r > Len(snapshot) THEN st
    ELSE Bind(TurnIteration(st, snapshot, r), LAMBDA next : TurnLoop(next, snapshot, r + 1))

\* TurnRightmost without the test of hasTurned[-1]
TurnRightmostAlways(st) == [rotors |-> TurnRotor(st.rotors, -1), turned |-> st.turned]

\* "if not hasTurned[-1]": the rightmost rotor turns if it has not
TurnRightmost(st) ==
    IF ~PyIndex(st.turned, -1)
    THEN [rotors |-> TurnRotor(st.rotors, -1), turned |-> st.turned]
    ELSE st

\* the turning part of fullEncode: the snapshot, the loop, then the
\* rightmost rotor
TurnRotors(rotors) ==
    Bind([i \in 1..Len(rotors) |-> rotors[i].currentPos], LAMBDA snapshot :
    Bind(TurnLoop([rotors |-> rotors, turned |-> [i \in 1..Len(rotors) |-> FALSE]], snapshot, 1),
         LAMBDA after : TurnRightmost(after)))

\* "for r in <order>: encodedInput = r.encode(encodedInput, direction, ...)"
RECURSIVE EncodeThrough(_, _, _, _)
EncodeThrough(order, k, encodedInput, direction) ==
    IF k > Len(order) THEN Ok(encodedInput)
    ELSE Try(RotorEncode(order[k], <<encodedInput>>, direction), LAMBDA out :
             EncodeThrough(order, k + 1, out, direction))

\* the signal path of fullEncode once the rotors have turned: the rotors
\* right to left, the reflector, the rotors left to right, the plugboard
SignalPath(rotors, board, refl, plugged) ==
    Try(EncodeThrough(PyReversed(rotors), 1, plugged, "right"), LAMBDA forward :
    Try(RotorEncode(refl, <<forward>>, "left"), LAMBDA reflected :
    Try(EncodeThrough(rotors, 1, reflected, "left"), LAMBDA backward :
    Try(PlugboardEncode(board, <<backward>>), LAMBDA out :
        Ok(upper(out))))))

\* fullEncode that sends the signal through the rotors before turning them
fullEncodeBeforeTurn(rotors, board, refl, inputLetter) ==
    Bind(Try(validateEncodingElement(inputLetter), LAMBDA clean : PlugboardEncode(board, clean)),
         LAMBDA plugged :
            IF plugged.raised # "none"
            THEN [out |-> plugged, rotors |-> rotors,
                  initialPositions |-> <<>>, hasTurned |-> <<>>]
            ELSE Bind(TurnRotors(rotors), LAMBDA turn :
                    [out |-> SignalPath(rotors, board, refl, plugged.value),
                     rotors |-> turn.rotors,
                     initialPositions |-> [i \in 1..Len(rotors) |-> rotors[i].currentPos],
                     hasTurned |-> turn.turned]))

\* fullEncode that turns the rotors before its input is validated
fullEncodeTurnUnvalidated(rotors, board, refl, inputLetter) ==
    Bind(Try(validateEncodingElement(inputLetter), LAMBDA clean : PlugboardEncode(board, clean)),
         LAMBDA plugged :
            Bind(TurnRotors(rotors), LAMBDA turn :
                IF plugged.raised # "none"
                THEN [out |-> plugged, rotors |-> turn.rotors,
                      initialPositions |-> <<>>, hasTurned |-> <<>>]
                ELSE [out |-> SignalPath(turn.rotors, board, refl, plugged.value),
                      rotors |-> turn.rotors,
                      initialPositions |-> [i \in 1..Len(rotors) |-> rotors[i].currentPos],
                      hasTurned |-> turn.turned]))

\* EnigmaMachine.fullEncode(inputLetter) under its validator, on a machine
\* with its plugboard, reflector and at least three rotors: the outcome, the
\* rotor stack it leaves and the locals initialPositions and hasTurned
fullEncode(rotors, board, refl, inputLetter) ==
    Bind(Try(validateEncodingElement(inputLetter), LAMBDA clean : PlugboardEncode(board, clean)),
         LAMBDA plugged :
            IF plugged.raised # "none"
            THEN [out |-> plugged, rotors |-> rotors,
                  initialPositions |-> <<>>, hasTurned |-> <<>>]
            ELSE Bind(TurnRotors(rotors), LAMBDA turn :
                    [out |-> SignalPath(turn.rotors, board, refl, plugged.value),
                     rotors |-> turn.rotors,
                     initialPositions |-> [i \in 1..Len(rotors) |-> rotors[i].currentPos],
                     hasTurned |-> turn.turned]))

-----------------------------------------------------------------------------
(* enigma.py: EnigmaMachine configuration.  A machine is the record of its *)
(* three fields; a call on it returns [raised, value]: the exception, and  *)
(* the machine the call leaves.                                            *)

Machine(rotors, board, refl) == [rotorsList |-> rotors, plugBoard |-> board, reflector |-> refl]

Left(e, m) == [raised |-> e, value |-> m]

\* addRotor without the test "order-1 > len(self.rotorsList)": list.insert
\* past the end appends
addRotorPastEnd(m, rotorObject, order) ==
    IF order < 1 THEN Left("ValueError", m)
    ELSE IF order - 1 > Len(m.rotorsList)
    THEN Left("none", [m EXCEPT !.rotorsList = Append(m.rotorsList, rotorObject)])
    ELSE Left("none", [m EXCEPT !.rotorsList = PyInsert(m.rotorsList, order - 1, rotorObject)])

\* EnigmaMachine.addRotor(rotorObject, order), for an int order
addRotor(m, rotorObject, order) ==
    IF order < 1 THEN Left("ValueError", m)
    ELSE IF order - 1 > Len(m.rotorsList) THEN Left("ValueError", m)
    ELSE Left("none", [m EXCEPT !.rotorsList = PyInsert(m.rotorsList, order - 1, rotorObject)])

\* plugleads.split(' ')
RECURSIVE Split(_)
Split(s) ==
    IF ~PyIn(" ", s) THEN <<s>>
    ELSE Bind(PyIndexOf(s, " "), LAMBDA k :
             <<SubSeq(s, 1, k)>> \o Split(SubSeq(s, k + 2, Len(s))))

\* "for i in plugleads: self.plugBoard.add(PlugLead(i))": an exception
\* leaves the board with the leads added before it
RECURSIVE AddLeads(_, _, _)
AddLeads(board, tokens, k) ==
    IF k > Len(tokens) THEN Left("none", board)
    ELSE Bind(PlugLead(tokens[k]), LAMBDA lead :
            IF lead.raised # "none" THEN Left(lead.raised, board)
            ELSE Bind(PlugboardAdd(board, lead.value), LAMBDA added :
                    IF added.raised # "none" THEN Left(added.raised, board)
                    ELSE AddLeads(added.value, tokens, k + 1)))

validRotors ==
    {"RotorI", "RotorII", "RotorIII", "RotorIV", "RotorV", "RotorBeta",
     "RotorGamma", "RotorVI", "RotorVII", "RotorVIII", "RotorCustom"}

validReflectors ==
    {"ReflectorA", "ReflectorB", "ReflectorC", "ReflectorBThin", "ReflectorCThin",
     "ReflectorCustom"}

\* globals()[name](ringSetting, initialPos) for a catalog rotor class
CatalogRotor(name, ringSetting, initialPos) ==
    CASE name = "RotorI" -> RotorI(ringSetting, initialPos)
      [] name = "RotorII" -> RotorII(ringSetting, initialPos)
      [] name = "RotorIII" -> RotorIII(ringSetting, initialPos)
      [] name = "RotorIV" -> RotorIV(ringSetting, initialPos)
      [] name = "RotorV" -> RotorV(ringSetting, initialPos)
      [] name = "RotorBeta" -> RotorBeta(ringSetting, initialPos)
      [] name = "RotorGamma" -> RotorGamma(ringSetting, initialPos)
      [] name = "RotorVI" -> RotorVI(ringSetting, initialPos)
      [] name = "RotorVII" -> RotorVII(ringSetting, initialPos)
      [] name = "RotorVIII" -> RotorVIII(ringSetting, initialPos)

\* globals()[name]() for a catalog reflector class
CatalogReflector(name) ==
    CASE name = "ReflectorA" -> ReflectorA
      [] name = "ReflectorB" -> ReflectorB
      [] name = "ReflectorC" -> ReflectorC
      [] name = "ReflectorBThin" -> ReflectorBThin
      [] name = "ReflectorCThin" -> ReflectorCThin

\* the rotor object setup builds from one rotor spec i =
\* [name, ringSetting, initialPos, order(, mapping(, notches))]
SetupBuildRotor(i) ==
    IF Len(i) < 4 THEN Raise("ValueError")
    ELSE IF i[1] \notin validRotors THEN Raise("ValueError")
    ELSE IF i[1] = "RotorCustom"
    THEN IF Len(i) = 5 /\ Len(i[5]) = 26 THEN RotorCustom(i[2], i[3], i[5], NoneStr)
         ELSE IF Len(i) = 6 /\ Len(i[5]) = 26 THEN RotorCustom(i[2], i[3], i[5], i[6])
         ELSE Raise("ValueError")
    ELSE IF Len(i) = 4 THEN CatalogRotor(i[1], i[2], i[3])
    ELSE Raise("ValueError")

\* setup's "for i in rotors": build the rotor, then addRotor(rotor, i[3]);
\* an exception leaves the machine with the rotors added before it
RECURSIVE SetupRotors(_, _, _)
SetupRotors(m, rotors, k) ==
    IF k > Len(rotors) THEN Left("none", m)
    ELSE Bind(SetupBuildRotor(rotors[k]), LAMBDA built :
            IF built.raised # "none" THEN Left(built.raised, m)
            ELSE Try(addRotor(m, built.value, rotors[k][4]), LAMBDA m2 :
                     SetupRotors(m2, rotors, k + 1)))

\* the reflector object setup builds; a str argument is [isList |-> FALSE,
\* name], a list argument [isList |-> TRUE, items].  A catalog class called
\* with a mapping, or ReflectorCustom called without one, is a TypeError
SetupBuildReflector(reflectorArg) ==
    IF reflectorArg.isList
    THEN IF Len(reflectorArg.items) # 2 THEN Raise("ValueError")
         ELSE IF ~(reflectorArg.items[1] \in validReflectors /\ Len(reflectorArg.items[2]) = 26)
         THEN Raise("ValueError")
         ELSE IF reflectorArg.items[1] # "ReflectorCustom" THEN Raise("TypeError")
         ELSE ReflectorCustom(reflectorArg.items[2])
    ELSE IF reflectorArg.name \notin validReflectors THEN Raise("ValueError")
    ELSE IF reflectorArg.name = "ReflectorCustom" THEN Raise("TypeError")
    ELSE Ok(CatalogReflector(reflectorArg.name))

\* EnigmaMachine.setup(rotors, reflector, plugleads=None, numPlugLeads=10):
\* the new plugboard is installed before its leads are added, the rotors
\* are added one by one, the reflector comes last
setup(m, rotors, reflectorArg, plugleads, numPlugLeads) ==
    Bind(Plugboard(numPlugLeads), LAMBDA created :
        IF created.raised # "none" THEN Left(created.raised, m)
        ELSE
        Bind(IF plugleads = NoneStr THEN Left("none", created.value)
             ELSE AddLeads(created.value, Split(plugleads), 1), LAMBDA leads :
        Bind([m EXCEPT !.plugBoard = leads.value], LAMBDA m1 :
            IF leads.raised # "none" THEN Left(leads.raised, m1)
            ELSE IF Len(rotors) < 3 THEN Left("ValueError", m1)
            ELSE
            Try(SetupRotors(m1, rotors, 1), LAMBDA m2 :
            Bind(SetupBuildReflector(reflectorArg), LAMBDA refl :
                IF refl.raised # "none" THEN Left(refl.raised, m2)
                ELSE Left("none", [m2 EXCEPT !.reflector = refl.value]))))))

-----------------------------------------------------------------------------
(* Bounds and the inputs the calls are drawn from *)

\* fullEncode calls that turn the rotors, per run
MaxKeys == 3

identityMapping == genericMapping

\* the reflector wiring that swaps A-B, C-D, ..., Y-Z
pairsMapping ==
    <<"B", "A", "D", "C", "F", "E", "H", "G", "J", "I", "L", "K", "N",
      "M", "P", "O", "R", "Q", "T", "S", "V", "U", "X", "W", "Z", "Y">>

\* rotor stacks, left to right: each entry is a class name followed by the
\* extra arguments of a custom rotor
StackChoices ==
    { << <<"RotorVI">>, <<"RotorVII">>, <<"RotorVIII">> >>,
      << <<"RotorI">>, <<"RotorVII">>, <<"RotorBeta">> >>,
      << <<"RotorCustom", identityMapping>>, <<"RotorCustom", identityMapping, <<"Z">> >>,
         <<"RotorCustom", identityMapping>> >>,
      << <<"RotorV">>, <<"RotorVI">>, <<"RotorVII">>, <<"RotorVIII">> >> }

RingChoices == {1, 26}

PositionChoices == {"Y", "Z"}

\* the rotors argument of setup: every stack with every choice of ring
\* setting and initial position, in the orders 1..N
SetupRotorArgs ==
    UNION { { [k \in 1..Len(s) |-> <<s[k][1], rings[k], <<pos[k]>>, k>> \o Tail(s[k])] :
                rings \in [1..Len(s) -> RingChoices], pos \in [1..Len(s) -> PositionChoices] } :
            s \in StackChoices }

SetupReflectorArgs ==
    { [isList |-> FALSE, name |-> "ReflectorB"],
      [isList |-> TRUE, items |-> <<"ReflectorCustom", pairsMapping>>] }

SetupPlugleadArgs ==
    { NoneStr, <<"A", "C">>, <<"A", "Z", " ", "b", "y">> }

\* the inputLetter arguments of fullEncode
KeyInputs == { <<"A">>, <<"z">>, <<"1">>, <<"A", "B">>, <<>> }

\* the letters of a lower-case or upper-case alphabet, as one-letter strs
Letters == { genericMapping[i] : i \in 1..26 }

-----------------------------------------------------------------------------
(* The machine: construction, setup, keypresses *)

NoCall == [op |-> "init", arg |-> <<>>, direction |-> "", raised |-> "none", value |-> ""]

\* EnigmaMachine.__init__
Init ==
    /\ rotorsList = <<>>
    /\ plugBoard = None
    /\ reflector = None
    /\ initialPositions = <<>>
    /\ hasTurned = <<>>
    /\ keypresses = 0
    /\ lastCall = NoCall

\* machine.setup(rotors, reflector, plugleads), once on a new machine
Setup ==
    /\ rotorsList = <<>> /\ plugBoard = None /\ reflector = None
    /\ \E rotors \in SetupRotorArgs, reflectorArg \in SetupReflectorArgs,
          plugleads \in SetupPlugleadArgs :
        \E r \in { setup(Machine(rotorsList, plugBoard, reflector), rotors, reflectorArg,
                          plugleads, 10) } :
            /\ rotorsList' = r.value.rotorsList
            /\ plugBoard' = r.value.plugBoard
            /\ reflector' = r.value.reflector
            /\ lastCall' = [op |-> "setup", arg |-> <<>>, direction |-> "",
                            raised |-> r.raised, value |-> ""]
    /\ UNCHANGED <<initialPositions, hasTurned, keypresses>>

\* setup has returned: the machine holds its plugboard, rotors and reflector
MachineReady == plugBoard # None /\ reflector # None /\ Len(rotorsList) >= 3

\* machine.fullEncode(inputLetter)
FullEncode ==
    /\ MachineReady
    /\ keypresses < MaxKeys
    /\ \E inputLetter \in KeyInputs :
        \E r \in { fullEncode(rotorsList, plugBoard, reflector, inputLetter) } :
            /\ rotorsList' = r.rotors
            /\ initialPositions' = r.initialPositions
            /\ hasTurned' = r.hasTurned
            /\ keypresses' = IF r.initialPositions # <<>> THEN keypresses + 1 ELSE keypresses
            /\ lastCall' = [op |-> "fullEncode", arg |-> inputLetter, direction |-> "",
                            raised |-> r.out.raised, value |-> r.out.value]
    /\ UNCHANGED <<plugBoard, reflector>>

Next == Setup \/ FullEncode

Spec == Init /\ [][Next]_vars

-----------------------------------------------------------------------------
(* One rotor on its own: Rotor.encode as a function of the rotor's state *)

\* a machine whose only rotor is a custom rotor with the alphabet as wiring or
\* rotor I, at any ring setting and any position
InitRotor ==
    /\ \E ringSetting \in 1..26, initialPos \in Letters, kind \in {"RotorCustom", "RotorI"} :
        LET rotor == IF kind = "RotorCustom"
                     THEN RotorCustom(ringSetting, <<initialPos>>, identityMapping, NoneStr)
                     ELSE RotorI(ringSetting, <<initialPos>>)
        IN  rotorsList = addRotor(Machine(<<>>, None, None), rotor.value, 1).value.rotorsList
    /\ plugBoard = None
    /\ reflector = None
    /\ initialPositions = <<>>
    /\ hasTurned = <<>>
    /\ keypresses = 0
    /\ lastCall = NoCall

\* rotorsList[0].encode(letterInput, direction, False); encode leaves the
\* rotor as it is, so one call from each rotor state shows every outcome
RotorEncodeCall ==
    /\ lastCall.op = "init"
    /\ \E letterInput \in Letters, direction \in {"right", "left"} :
        \E r \in { RotorEncode(rotorsList[1], <<letterInput>>, direction) } :
            lastCall' = [op |-> "Rotor.encode", arg |-> <<letterInput>>,
                         direction |-> direction, raised |-> r.raised, value |-> r.value]
    /\ UNCHANGED <<rotorsList, plugBoard, reflector, initialPositions, hasTurned, keypresses>>

NextRotor == RotorEncodeCall

SpecRotor == InitRotor /\ [][NextRotor]_vars

-----------------------------------------------------------------------------
(* One plugboard on its own: Plugboard.add and Plugboard.encode *)

CapacityChoices == {0, 1, 2, 10}

\* the letters arguments of PlugLead
LeadInputs ==
    { <<"A", "B">>, <<"b", "c">>, <<"C", "D">>, <<"y", "Z">>, <<"A", "a">>,
      <<"A", "A">>, <<"A", "1">>, <<"A", "B", "C">> }

\* a machine given a new Plugboard(numPlugLeads)
InitPlug ==
    /\ rotorsList = <<>>
    /\ \E numPlugLeads \in CapacityChoices : plugBoard = Plugboard(numPlugLeads).value
    /\ reflector = None
    /\ initialPositions = <<>>
    /\ hasTurned = <<>>
    /\ keypresses = 0
    /\ lastCall = NoCall

\* plugBoard.add(PlugLead(letters))
PlugAddCall ==
    /\ \E letters \in LeadInputs :
        \E lead \in { PlugLead(letters) } :
        \E added \in { IF lead.raised # "none" THEN lead ELSE PlugboardAdd(plugBoard, lead.value) } :
            IF lead.raised # "none"
            THEN /\ plugBoard' = plugBoard
                 /\ lastCall' = [op |-> "PlugLead", arg |-> letters, direction |-> "",
                                 raised |-> lead.raised, value |-> ""]
            ELSE /\ plugBoard' = IF added.raised = "none" THEN added.value ELSE plugBoard
                 /\ lastCall' = [op |-> "Plugboard.add", arg |-> letters, direction |-> "",
                                 raised |-> added.raised,
                                 value |-> IF added.raised = "none" THEN "" ELSE added.value]
    /\ UNCHANGED <<rotorsList, reflector, initialPositions, hasTurned, keypresses>>

\* plugBoard.encode(letterInput)
PlugEncodeCall ==
    /\ \E letterInput \in Letters :
        \E r \in { PlugboardEncode(plugBoard, <<letterInput>>) } :
            lastCall' = [op |-> "Plugboard.encode", arg |-> <<letterInput>>,
                         direction |-> "", raised |-> r.raised, value |-> r.value]
    /\ UNCHANGED <<rotorsList, plugBoard, reflector, initialPositions, hasTurned, keypresses>>

NextPlug == PlugAddCall \/ PlugEncodeCall

SpecPlug == InitPlug /\ [][NextPlug]_vars

-----------------------------------------------------------------------------
(* The claims.  Rotors are counted from the right: ordinal 1 is the        *)
(* rightmost rotor.  Pre is a position before the last keypress, Pos the   *)
(* position now.                                                           *)

NumRotors == Len(rotorsList)

\* the last call was a fullEncode that turned the rotors
Keypressed == lastCall.op = "fullEncode" /\ initialPositions # <<>>

\* the last call was a fullEncode that returned a letter
Encoded == Keypressed /\ lastCall.raised = "none"

RotorAt(r) == PyIndex(rotorsList, -r)

Pos(r) == RotorAt(r).currentPos

Pre(r) == PyIndex(initialPositions, -r)

Advanced(r) == Pos(r) = (Pre(r) + 1) % 26

Stayed(r) == Pos(r) = Pre(r)

\* the letter the rotor showed before the keypress is in its notch list
OnNotch(r) == PyIn(genericMapping[Pre(r) + 1], RotorAt(r).notch)

\* the rotor stack as it was before the last keypress
PreRotors == [i \in 1..NumRotors |-> [rotorsList[i] EXCEPT !.currentPos = initialPositions[i]]]

\* C1: reciprocity.  If a keypress on x from rotor state S returned y, then
\* a keypress on y from the same state S of the same machine returns x.
C1_Reciprocity ==
    Encoded =>
        fullEncode(PreRotors, plugBoard, reflector, <<lastCall.value>>).out
            = Ok(upper(lastCall.arg[1]))

\* C2: every fullEncode call that returns a letter advances the rightmost
\* rotor by exactly one position modulo 26, whatever the notches and positions.
C2_RightmostAdvancesByOne == Encoded => Advanced(1)

\* a keypress with the rightmost rotor on its notch at position 25: it wraps to 0
C2_Witness == Encoded /\ OnNotch(1) /\ Pre(1) = 25 /\ Pos(1) = 0

\* C3: in a keypress where the rightmost rotor's pre-step letter is in its
\* notch list, the second rotor from the right advances by exactly one
\* position, and so does the rightmost.
C3_CarryFromRightmost == (Encoded /\ OnNotch(1)) => (Advanced(1) /\ Advanced(2))

\* a carry that only the rightmost rotor's notch explains
C3_Witness == Encoded /\ OnNotch(1) /\ ~OnNotch(2) /\ Advanced(2) /\ Stayed(3)

C5_AtMostOneStep == Encoded => \A r \in 1..NumRotors : Stayed(r) \/ Advanced(r)

\* a keypress with both the rightmost and the second rotor on their notches
C5_Witness == Encoded /\ OnNotch(1) /\ OnNotch(2) /\ Advanced(1) /\ Advanced(2) /\ Advanced(3)

\* C6: with four or more rotors, every rotor at ordinal 4 or higher holds its
\* initial position after any keypresses, and the rotor at ordinal 3 moves in
\* a keypress only if the ordinal-2 rotor's pre-step letter is in that rotor's
\* notch list: a rotor at ordinal 3 or higher on its own notch moves nothing.
C6_OnlyTwoPawls ==
    NumRotors >= 4 =>
        /\ \A r \in 4..NumRotors : Pos(r) = RotorAt(r).initialPos
        /\ Encoded => (~Stayed(3) => OnNotch(2))

\* a keypress with the rotors at ordinals 3 and 4 on their notches and the
\* ordinal-2 rotor off its notch: neither of the two has moved
C6_Witness ==
    /\ NumRotors >= 4 /\ Encoded
    /\ OnNotch(3) /\ OnNotch(4) /\ ~OnNotch(2)
    /\ Stayed(3) /\ Stayed(4)

\* C7: a rotor at ordinal 2 whose pre-step letter is in its notch list does
\* not step from its own notch, and does not make the rotor to its left step,
\* when the rotor at ordinal 1 is a notch-less rotor.
C7_NotchlessBlocksPawl ==
    (Encoded /\ OnNotch(2) /\ RotorAt(1).rotorType = "notchlessrotor")
        => (Stayed(2) /\ Stayed(3))

\* rotor k of the stack, left to right, in one direction
Forward(k, x) == RotorEncode(rotorsList[k], <<x>>, "right").value

Backward(k, x) == RotorEncode(rotorsList[k], <<x>>, "left").value

\* forward_k(... forward_N(x)): the rotors N down to k, right to left
RECURSIVE ForwardFrom(_, _)
ForwardFrom(k, x) == IF k > NumRotors THEN x ELSE Forward(k, ForwardFrom(k + 1, x))

\* backward_k(... backward_1(x)): the rotors 1 up to k, left to right
RECURSIVE BackwardTo(_, _)
BackwardTo(k, x) == IF k = 0 THEN x ELSE Backward(k, BackwardTo(k - 1, x))

Plug(x) == PlugboardEncode(plugBoard, <<x>>).value

Reflect(x) == RotorEncode(reflector, <<x>>, "left").value

\* C8: the letter fullEncode returns is plugboard(backward_N(...
\* backward_1(reflector(forward_1(... forward_N(plugboard(x))))))), rotor N
\* the rightmost, every rotor taken at its position after this keypress's
\* stepping.
C8_SignalPathAfterStepping ==
    Encoded =>
        lastCall.value = Plug(BackwardTo(NumRotors, Reflect(ForwardFrom(1, Plug(lastCall.arg[1])))))

\* a keypress that turned two rotors and went through a plug lead
C8_Witness ==
    /\ Encoded /\ OnNotch(1) /\ Advanced(2)
    /\ Len(plugBoard.plugLeads) > 0 /\ Plug(lastCall.arg[1]) # upper(lastCall.arg[1])
    /\ lastCall.value # upper(lastCall.arg[1])

\* the rotor on its own
TheRotor == rotorsList[1]

\* C9: a rotor whose wiring is the alphabet in order returns its input letter
\* unchanged, for every letter, position, ring setting and direction.
C9_IdentityRotorTransparent ==
    (lastCall.op = "Rotor.encode" /\ TheRotor.mapping = identityMapping)
        => (lastCall.raised = "none" /\ lastCall.value = lastCall.arg[1])

\* the letter x goes through the plugboard twice
PlugTwice(x) ==
    Try(PlugboardEncode(plugBoard, <<x>>), LAMBDA y : PlugboardEncode(plugBoard, <<y>>))

\* the leads that hold the letter x
LeadsWith(x) == { i \in 1..Len(plugBoard.plugLeads) : PyIn(lower(x), plugBoard.plugLeads[i].lettersList) }

\* C10: on any plugboard reached by add calls, for every letter x
\* encode(encode(x)) is x; a letter in a lead maps to the other letter of
\* that lead, and a letter in no lead maps to itself.
C10_PlugboardInvolution ==
    \A x \in Letters :
        /\ PlugTwice(x) = Ok(x)
        /\ LeadsWith(x) = {} => PlugboardEncode(plugBoard, <<x>>) = Ok(x)
        /\ \A i \in LeadsWith(x) :
              \E y \in Letters :
                  /\ y # x
                  /\ PyIn(lower(y), plugBoard.plugLeads[i].lettersList)
                  /\ PlugboardEncode(plugBoard, <<x>>) = Ok(y)

-----------------------------------------------------------------------------
(* One plugboard of each capacity: Plugboard.__init__ and Plugboard.add    *)

\* the numPlugLeads arguments of Plugboard
CapacityRange == -1..14

\* the thirteen leads AB, CD, ..., YZ: pairwise disjoint
PairLeads == [i \in 1..13 |-> <<genericMapping[2 * i - 1], genericMapping[2 * i]>>]

\* machine.addPlugBoard(Plugboard(numPlugLeads)); a constructor that raises
\* leaves the machine without a plugboard
NewPlugboard ==
    /\ plugBoard = None
    /\ \E numPlugLeads \in CapacityRange :
        \E r \in { Plugboard(numPlugLeads) } :
            /\ plugBoard' = IF r.raised = "none" THEN r.value ELSE plugBoard
            /\ lastCall' = [op |-> "Plugboard", arg |-> <<numPlugLeads>>, direction |-> "",
                            raised |-> r.raised, value |-> ""]
    /\ UNCHANGED <<rotorsList, reflector, initialPositions, hasTurned, keypresses>>

\* plugBoard.add(PlugLead(letters)): the next lead of PairLeads, which is
\* disjoint from the stored ones, or one of the stored leads again
BoardAddCall ==
    /\ plugBoard # None
    /\ \E i \in 1..Len(PairLeads) :
        /\ i <= Len(plugBoard.plugLeads) + 1
        /\ \E lead \in { PlugLead(PairLeads[i]) } :
           \E added \in { PlugboardAdd(plugBoard, lead.value) } :
              /\ plugBoard' = IF added.raised = "none" THEN added.value ELSE plugBoard
              /\ lastCall' = [op |-> "Plugboard.add", arg |-> PairLeads[i], direction |-> "",
                              raised |-> added.raised,
                              value |-> IF added.raised = "none" THEN "" ELSE added.value]
    /\ UNCHANGED <<rotorsList, reflector, initialPositions, hasTurned, keypresses>>

NextBoard == NewPlugboard \/ BoardAddCall

SpecBoard == Init /\ [][NextBoard]_vars

-----------------------------------------------------------------------------
(* The claims about the plugboard's errors *)

\* the letters of the str letters that the board has reserved, in lower case
SharedLetters(board, letters) ==
    { lower(letters[i]) : i \in 1..Len(letters) } \cap
    { board.plugLeadsLetters[j] : j \in 1..Len(board.plugLeadsLetters) }

\* the board has room for one more lead
HasRoom(board) == Len(board.plugLeads) # board.numPlugLeads

\* C11: an add call with a lead that shares a letter with a stored lead raises
\* PlugboardError and leaves the board exactly as it was; the error names a
\* shared letter, and on a board with room it names one shared letter only,
\* also when the lead's first letter is free and only the second is shared.
C11_ConflictRejectedUnchanged ==
    [][ (lastCall'.op = "Plugboard.add" /\ SharedLetters(plugBoard, lastCall'.arg) # {}) =>
            /\ lastCall'.raised = "PlugboardError"
            /\ plugBoard' = plugBoard
            /\ \E x \in SharedLetters(plugBoard, lastCall'.arg) : PyIn(upper(x), lastCall'.value)
            /\ HasRoom(plugBoard) =>
                   \E x \in SharedLetters(plugBoard, lastCall'.arg) : lastCall'.value = <<upper(x)>>
      ]_vars

\* a lead whose first letter is free and whose second letter is reserved was
\* refused on a board with room and a stored lead, the error naming the second
C11_Witness ==
    /\ lastCall.op = "Plugboard.add" /\ lastCall.raised = "PlugboardError"
    /\ HasRoom(plugBoard) /\ Len(plugBoard.plugLeads) > 0
    /\ SharedLetters(plugBoard, lastCall.arg) = {lower(lastCall.arg[2])}
    /\ lastCall.value = <<upper(lastCall.arg[2])>>

\* the lead of the str letters is disjoint from the leads of the board
Disjoint(board, letters) == SharedLetters(board, letters) = {}

\* C12: on a board of capacity k in 0..13 an add call with a lead disjoint
\* from the stored ones succeeds while fewer than k leads are stored, and
\* raises PlugboardError leaving the board as it was once k leads are stored:
\* the first k such calls succeed, the next fails; with k = 0 the first fails.
C12_CapacityBound ==
    [][ ( /\ plugBoard # None /\ lastCall'.op = "Plugboard.add"
          /\ plugBoard.numPlugLeads \in 0..13
          /\ Disjoint(plugBoard, lastCall'.arg) ) =>
            IF Len(plugBoard.plugLeads) < plugBoard.numPlugLeads
            THEN /\ lastCall'.raised = "none"
                 /\ Len(plugBoard'.plugLeads) = Len(plugBoard.plugLeads) + 1
                 /\ plugBoard'.plugLeads[Len(plugBoard'.plugLeads)].lettersList = lowerStr(lastCall'.arg)
            ELSE /\ lastCall'.raised = "PlugboardError"
                 /\ plugBoard' = plugBoard
      ]_vars

\* a board of capacity 12 that holds 12 leads has refused the thirteenth
C12_Witness ==
    /\ plugBoard # None /\ lastCall.op = "Plugboard.add"
    /\ plugBoard.numPlugLeads = 12 /\ Len(plugBoard.plugLeads) = 12
    /\ Disjoint(plugBoard, lastCall.arg)
    /\ lastCall.raised = "PlugboardError"

\* C13: on every board the constructor accepted, after any add calls, every
\* letter is in at most one stored lead and the stored leads are no more than
\* the capacity.
C13_BoardWithinCapacity ==
    plugBoard # None =>
        /\ \A i, j \in 1..Len(plugBoard.plugLeads) :
               i # j => \A x \in 1..2, y \in 1..2 :
                   plugBoard.plugLeads[i].lettersList[x] # plugBoard.plugLeads[j].lettersList[y]
        /\ Len(plugBoard.plugLeads) <= plugBoard.numPlugLeads

\* the two characters of the str letters are one letter, in any case
SameLetter(letters) == Len(letters) = 2 /\ lower(letters[1]) = lower(letters[2])

\* C14: every lead PlugLead accepts holds two different letters, compared
\* without case; a two-character str naming one letter twice ('AA', 'Aa') is
\* refused with InputError.
C14_PlugLeadLettersDiffer ==
    /\ \A i \in 1..Len(plugBoard.plugLeads) :
           plugBoard.plugLeads[i].lettersList[1] # plugBoard.plugLeads[i].lettersList[2]
    /\ (lastCall.op \in {"PlugLead", "Plugboard.add"} /\ SameLetter(lastCall.arg)) =>
           (lastCall.op = "PlugLead" /\ lastCall.raised = "InputError")

-----------------------------------------------------------------------------
(* The claims about rejected input and configuration *)

\* the str is exactly one letter
OneLetter(s) == Len(s) = 1 /\ IsLetter(s[1])

\* C15: a fullEncode call whose input holds a character that is not a letter,
\* or is not exactly one letter, raises InputError, returns no letter and
\* leaves every rotor, and so every rotor position, as it was.
C15_RejectedKeypressStepsNothing ==
    [][ (lastCall'.op = "fullEncode" /\ ~OneLetter(lastCall'.arg)) =>
            /\ lastCall'.raised = "InputError"
            /\ lastCall'.value = ""
            /\ rotorsList' = rotorsList
            /\ keypresses' = keypresses
      ]_vars

\* a two-letter input was refused after a keypress had moved the rotors away
\* from their initial positions
C15_Witness ==
    /\ lastCall.op = "fullEncode" /\ lastCall.raised = "InputError"
    /\ Len(lastCall.arg) = 2 /\ keypresses >= 1
    /\ \E i \in 1..Len(rotorsList) : rotorsList[i].currentPos # rotorsList[i].initialPos

-----------------------------------------------------------------------------
(* Configuration on its own: setup with well-formed and ill-formed          *)
(* arguments, and the direct calls addRotor and addReflector                *)

\* rotors added by direct addRotor calls, per run
MaxStack == 4

\* a 26-character wiring with A twice and no B
repeatedMapping == [genericMapping EXCEPT ![2] = "A"]

\* a 26-character wiring of distinct characters, one of them the digit 0
digitMapping == [genericMapping EXCEPT ![1] = "0"]

\* the wiring that sends each letter to the next one: no letter to itself,
\* and not an involution
shiftMapping == [i \in 1..26 |-> genericMapping[(i % 26) + 1]]

shortMapping == <<"A", "B", "C">>

\* a Python value with its type: an order argument may be of any type
PyInt(n) == [type |-> "int", value |-> n]

\* EnigmaMachine.addRotor(rotorObject, order) for an order of any type:
\* "type(order) != int" comes first
addRotorTyped(m, rotorObject, order) ==
    IF order.type # "int" THEN Left("ValueError", m)
    ELSE addRotor(m, rotorObject, order.value)

\* the rotors arguments of setup
SetupRotorChoices ==
    << << <<"RotorI", 1, <<"A">>, 1>>, <<"RotorII", 1, <<"A">>, 2>>, <<"RotorIII", 1, <<"A">>, 3>> >>,
       << <<"RotorI", 1, <<"A">>, 1>>, <<"RotorII", 1, <<"A">>, 2>> >>,
       << <<"RotorI", 1, <<"A">>, 1>>, <<"RotorII", 1, <<"A">>, 1>>, <<"RotorIII", 1, <<"A">>, 1>> >>,
       << <<"RotorI", 1, <<"A">>, 1>>, <<"RotorII", 1, <<"A">>, 3>>, <<"RotorIII", 1, <<"A">>, 2>> >>,
       << <<"RotorI", 1, <<"A">>, 0>>, <<"RotorII", 1, <<"A">>, 1>>, <<"RotorIII", 1, <<"A">>, 2>> >>,
       << <<"RotorI", 1, <<"A">>, 1>>, <<"RotorII", 1, <<"A">>, 2>>, <<"RotorX", 1, <<"A">>, 3>> >>,
       << <<"RotorCustom", 1, <<"A">>, 1, identityMapping>>, <<"RotorII", 1, <<"A">>, 2>>,
          <<"RotorCustom", 1, <<"A">>, 3, mappingRotorI, <<"Q">> >> >>,
       << <<"RotorI", 1, <<"A">>, 1>>, <<"RotorII", 1, <<"A">>, 2>>,
          <<"RotorCustom", 1, <<"A">>, 3, shortMapping>> >>,
       << <<"RotorI", 1, <<"A">>, 1>>, <<"RotorCustom", 1, <<"A">>, 2, repeatedMapping>>,
          <<"RotorIII", 1, <<"A">>, 3>> >>,
       << <<"RotorCustom", 1, <<"A">>, 1, digitMapping>>, <<"RotorII", 1, <<"A">>, 2>>,
          <<"RotorIII", 1, <<"A">>, 3>> >>,
       << <<"RotorI", 1, <<"A">>, 1>>, <<"RotorII", 1, <<"A">> >>, <<"RotorIII", 1, <<"A">>, 3>> >>,
       << <<"RotorI", 1, <<"A">>, 1>>, <<"RotorII", 1, <<"A">>, 2>>, <<"RotorIII", 27, <<"A">>, 3>> >>,
       << <<"RotorI", 1, <<"A">>, 1>>, <<"RotorII", 1, <<"A">>, 2>>, <<"RotorIII", 1, <<"A">>, 3>>,
          <<"RotorBeta", 1, <<"A">>, 4>> >> >>

\* the reflector arguments of setup
SetupReflectorChoices ==
    << [isList |-> FALSE, name |-> "ReflectorB"],
       [isList |-> FALSE, name |-> "ReflectorCThin"],
       [isList |-> FALSE, name |-> "ReflectorX"],
       [isList |-> TRUE, items |-> <<"ReflectorCustom", pairsMapping>>],
       [isList |-> TRUE, items |-> <<"ReflectorCustom", identityMapping>>],
       [isList |-> TRUE, items |-> <<"ReflectorCustom", shiftMapping>>],
       [isList |-> TRUE, items |-> <<"ReflectorCustom", repeatedMapping>>],
       [isList |-> TRUE, items |-> <<"ReflectorCustom", shortMapping>>],
       [isList |-> TRUE, items |-> <<"ReflectorB", mappingReflectorB>>],
       [isList |-> TRUE, items |-> <<"ReflectorCustom">>] >>

\* the plugleads arguments of setup: None, 'AC', 'AB A1', 'AB BC', 'AB CD'
SetupPlugleadChoices ==
    << NoneStr, <<"A", "C">>, <<"A", "B", " ", "A", "1">>, <<"A", "B", " ", "B", "C">>,
       <<"A", "B", " ", "C", "D">> >>

\* the numPlugLeads arguments of setup
SetupCapacityChoices == <<10, 14, 1>>

\* machine.setup(rotors, reflector, plugleads, numPlugLeads) on a new machine
SetupCall ==
    /\ lastCall.op = "init"
    /\ \E kr \in 1..Len(SetupRotorChoices), kf \in 1..Len(SetupReflectorChoices),
          kp \in 1..Len(SetupPlugleadChoices), kc \in 1..Len(SetupCapacityChoices) :
        \E r \in { setup(Machine(rotorsList, plugBoard, reflector), SetupRotorChoices[kr],
                          SetupReflectorChoices[kf], SetupPlugleadChoices[kp],
                          SetupCapacityChoices[kc]) } :
            /\ rotorsList' = r.value.rotorsList
            /\ plugBoard' = r.value.plugBoard
            /\ reflector' = r.value.reflector
            /\ lastCall' = [op |-> "setup", arg |-> <<kr, kf, kp, kc>>, direction |-> "",
                            raised |-> r.raised, value |-> ""]
    /\ UNCHANGED <<initialPositions, hasTurned, keypresses>>

\* the rotor objects of direct addRotor calls, as their constructors return
\* them: RotorI(1,'A'), RotorCustom(1,'A',<alphabet>), RotorCustom(1,'A','ABC'),
\* RotorCustom(1,'A',<A twice>)
RotorChoices ==
    << RotorI(1, <<"A">>), RotorCustom(1, <<"A">>, identityMapping, NoneStr),
       RotorCustom(1, <<"A">>, shortMapping, NoneStr),
       RotorCustom(1, <<"A">>, repeatedMapping, NoneStr) >>

\* the order arguments of direct addRotor calls: the ints -1..MaxStack+2,
\* the str '1', the float 1.0 and the bool True
OrderChoices ==
    [n \in 1..(MaxStack + 4) |-> PyInt(n - 2)] \o
    << [type |-> "str", value |-> -1], [type |-> "float", value |-> -1],
       [type |-> "bool", value |-> -1] >>

\* machine.addRotor(<rotor constructor>(...), order), on a machine that was
\* not set up by setup
AddRotorCall ==
    /\ lastCall.op # "setup"
    /\ Len(rotorsList) < MaxStack
    /\ \E kr \in 1..Len(RotorChoices), ko \in 1..Len(OrderChoices) :
        \E built \in { RotorChoices[kr] } :
            IF built.raised # "none"
            THEN /\ rotorsList' = rotorsList
                 /\ lastCall' = [op |-> "Rotor", arg |-> <<kr, ko>>, direction |-> "",
                                 raised |-> built.raised, value |-> ""]
            ELSE \E r \in { addRotorTyped(Machine(rotorsList, plugBoard, reflector),
                                          built.value, OrderChoices[ko]) } :
                 /\ rotorsList' = r.value.rotorsList
                 /\ lastCall' = [op |-> "addRotor", arg |-> <<kr, ko>>, direction |-> "",
                                 raised |-> r.raised, value |-> ""]
    /\ UNCHANGED <<plugBoard, reflector, initialPositions, hasTurned, keypresses>>

\* the reflector objects of direct addReflector calls, as their constructors
\* return them
ReflectorChoices ==
    << Ok(ReflectorA), Ok(ReflectorC), ReflectorCustom(pairsMapping),
       ReflectorCustom(shortMapping), ReflectorCustom(repeatedMapping) >>

\* machine.addReflector(<reflector constructor>(...)), on a machine that was
\* not set up by setup
AddReflectorCall ==
    /\ lastCall.op # "setup"
    /\ reflector = None
    /\ \E kf \in 1..Len(ReflectorChoices) :
        \E built \in { ReflectorChoices[kf] } :
            /\ reflector' = IF built.raised = "none" THEN built.value ELSE reflector
            /\ lastCall' = [op |-> IF built.raised = "none" THEN "addReflector" ELSE "Reflector",
                            arg |-> <<kf>>, direction |-> "", raised |-> built.raised,
                            value |-> ""]
    /\ UNCHANGED <<rotorsList, plugBoard, initialPositions, hasTurned, keypresses>>

NextSetup == SetupCall \/ AddRotorCall \/ AddReflectorCall

SpecSetup == Init /\ [][NextSetup]_vars

-----------------------------------------------------------------------------
(* The claims about configuration *)

\* the wiring sends no letter to itself and is its own inverse
FixedPointFreeInvolution(mapping) ==
    /\ Len(mapping) = 26
    /\ \A i \in 1..26 :
           /\ mapping[i] \in DOMAIN genericIndexOf
           /\ mapping[i] # genericMapping[i]
           /\ mapping[GenericIndex(mapping[i]) + 1] = genericMapping[i]

\* C16: every reflector installed in a machine, by setup or by addReflector
\* after its constructor returned, has a wiring that is a fixed-point-free
\* involution: a constructor given any other wiring raises.
C16_ReflectorIsInvolution ==
    reflector # None => FixedPointFreeInvolution(reflector.mapping)

\* the wiring holds each of the 26 letters once
Bijection(mapping) ==
    Len(mapping) = 26 /\ \A i \in 1..26 : PyIn(genericMapping[i], mapping)

\* C17: every custom rotor and custom reflector that was constructed and
\* installed has a wiring of 26 distinct letters: a constructor given a
\* mapping with fewer, of length 26 or not, raises.
C17_CustomWiringIsBijection ==
    /\ \A i \in 1..Len(rotorsList) :
           rotorsList[i].name = "custom" => Bijection(rotorsList[i].mapping)
    /\ (reflector # None /\ reflector.name = "custom") => Bijection(reflector.mapping)

\* the rotors argument of the last setup call
SetupRotorsArg == SetupRotorChoices[lastCall.arg[1]]

\* the order is not an int >= 1, or is past the end of a stack of n rotors
BadOrder(order, n) == order.type # "int" \/ order.value < 1 \/ order.value > n + 1

\* C18: setup with fewer than 3 rotor specs raises (ValueError, when no plug
\* leads are given); an addRotor call with an order that is not an int >= 1,
\* or is greater than the number of rotors in the stack plus 1, raises
\* ValueError and leaves the stack as it was.
C18_CountAndOrderErrors ==
    /\ []( (lastCall.op = "setup" /\ Len(SetupRotorsArg) < 3) =>
              /\ lastCall.raised # "none"
              /\ lastCall.arg[3] = 1 /\ lastCall.arg[4] = 1 => lastCall.raised = "ValueError" )
    /\ [][ (lastCall'.op = "addRotor"
             /\ BadOrder(OrderChoices[lastCall'.arg[2]], Len(rotorsList))) =>
                /\ lastCall'.raised = "ValueError"
                /\ rotorsList' = rotorsList
         ]_vars

\* an addRotor call with order = (rotors in the stack) + 2 was refused on a
\* stack that holds rotors
C18_Witness ==
    /\ lastCall.op = "addRotor" /\ lastCall.raised = "ValueError"
    /\ Len(rotorsList) >= 1
    /\ OrderChoices[lastCall.arg[2]] = PyInt(Len(rotorsList) + 2)

\* two rotor specs of the setup argument carry the same order
DuplicateOrders(rotors) ==
    \E i, j \in 1..Len(rotors) :
        i < j /\ Len(rotors[i]) >= 4 /\ Len(rotors[j]) >= 4 /\ rotors[i][4] = rotors[j][4]

\* C19: an order given to two rotors is refused: setup with a repeated order
\* raises, and addRotor with an order that a rotor of the stack already
\* holds raises; after an accepted setup each rotor sits at the stack place
\* of its order.
C19_OrdersUnique ==
    /\ []( lastCall.op = "setup" =>
              /\ DuplicateOrders(SetupRotorsArg) => lastCall.raised # "none"
              /\ lastCall.raised = "none" =>
                     \A j \in 1..Len(SetupRotorsArg) :
                         rotorsList[SetupRotorsArg[j][4]] = SetupBuildRotor(SetupRotorsArg[j]).value )
    /\ [][ (lastCall'.op = "addRotor"
             /\ OrderChoices[lastCall'.arg[2]].type = "int"
             /\ OrderChoices[lastCall'.arg[2]].value \in 1..Len(rotorsList)) =>
                lastCall'.raised = "ValueError"
         ]_vars

\* C20: after a setup call that raised, the machine is as it was before the
\* call: here, a new machine, with no plugboard, no rotors and no reflector.
C20_FailedSetupLeavesNothing ==
    (lastCall.op = "setup" /\ lastCall.raised # "none") =>
        (plugBoard = None /\ rotorsList = <<>> /\ reflector = None)

-----------------------------------------------------------------------------
(* enigma.py: EnigmaMachine.serialEncode, and the lines printStatus writes. *)
(* Standard output is the sequence of the lines printed, each line named   *)
(* by the fixed text it starts with.                                       *)

\* tools.printStatus(string, boolean): the lines the call adds to stdout
printStatus(string, boolean) == IF boolean THEN <<string>> ELSE <<>>

\* the lines a returning Rotor.encode(letterInput, direction, printFlag)
\* prints: none in the reflector branch, five in the other
RotorEncodeStdout(self, direction, printFlag) ==
    IF self.rotorType = "reflector" THEN <<>>
    ELSE printStatus("Coming into rotor", printFlag)
         \o printStatus("Input letter index is", printFlag)
         \o printStatus(IF direction = "right" THEN "holds genericMappingIndex"
                        ELSE "holds rotorIndex", printFlag)
         \o printStatus(IF direction = "right" THEN "Corresponding to rotorLetter"
                        ELSE "Corresponding to genericMappingLetter", printFlag)
         \o printStatus("Applying offset returns letter", printFlag)

\* the lines the rotors in the given order print on one pass
RECURSIVE PassStdout(_, _, _, _)
PassStdout(order, k, direction, printFlag) ==
    IF k > Len(order) THEN <<>>
    ELSE RotorEncodeStdout(order[k], direction, printFlag)
         \o PassStdout(order, k + 1, direction, printFlag)

\* fullEncode whose printStatusFlag, when on, makes the call encode through
\* the rotors before it turns them
fullEncodeTracedBeforeTurn(rotors, board, refl, inputLetter, printStatusFlag) ==
    Bind(IF printStatusFlag THEN fullEncodeBeforeTurn(rotors, board, refl, inputLetter)
         ELSE fullEncode(rotors, board, refl, inputLetter), LAMBDA r :
        [out |-> r.out, rotors |-> r.rotors,
         initialPositions |-> r.initialPositions, hasTurned |-> r.hasTurned,
         stdout |-> IF r.initialPositions = <<>> THEN <<>>
                    ELSE printStatus("Plugboard transforms input in", printStatusFlag)])

\* EnigmaMachine.fullEncode(inputLetter, printStatusFlag): printStatusFlag
\* reaches only printStatus and Rotor.encode's printFlag, so the call is
\* fullEncode and the lines it prints; a call refused by its validator or by
\* the plugboard prints nothing
fullEncodeTraced(rotors, board, refl, inputLetter, printStatusFlag) ==
    Bind(fullEncode(rotors, board, refl, inputLetter), LAMBDA r :
        [out |-> r.out, rotors |-> r.rotors,
         initialPositions |-> r.initialPositions, hasTurned |-> r.hasTurned,
         stdout |->
            IF r.initialPositions = <<>> THEN <<>>
            ELSE printStatus("Plugboard transforms input in", printStatusFlag)
                 \o printStatus("Starting with rotors at", printStatusFlag)
                 \o printStatus("Corresponding letters", printStatusFlag)
                 \o PassStdout(PyReversed(r.rotors), 1, "right", printStatusFlag)
                 \o RotorEncodeStdout(refl, "left", printStatusFlag)
                 \o printStatus("Reflector transforms input in", printStatusFlag)
                 \o PassStdout(r.rotors, 1, "left", printStatusFlag)])

\* the loop of serialEncode from the k-th character on: st holds the rotor
\* stack, encodedString, stdout, the number of fullEncode calls that have
\* turned the rotors and the locals of the last of them
RECURSIVE SerialLoop(_, _, _, _, _, _)
SerialLoop(st, board, refl, inputString, k, printStatusFlag) ==
    IF k > Len(inputString)
    THEN [st EXCEPT !.out = Ok(upperStr(st.encodedString))]
    ELSE Bind(fullEncodeTraced(st.rotors, board, refl, <<inputString[k]>>, printStatusFlag),
              LAMBDA r :
                IF r.initialPositions = <<>>
                THEN [st EXCEPT !.out = r.out, !.stdout = st.stdout \o r.stdout]
                ELSE IF r.out.raised # "none"
                THEN [st EXCEPT !.out = r.out, !.rotors = r.rotors,
                                !.stdout = st.stdout \o r.stdout,
                                !.turns = st.turns + 1,
                                !.initialPositions = r.initialPositions,
                                !.hasTurned = r.hasTurned]
                ELSE SerialLoop(
                        [out |-> st.out, rotors |-> r.rotors,
                         encodedString |-> st.encodedString \o <<r.out.value>>,
                         stdout |-> st.stdout \o r.stdout
                                    \o printStatus("Encoded input so far", printStatusFlag),
                         turns |-> st.turns + 1,
                         initialPositions |-> r.initialPositions,
                         hasTurned |-> r.hasTurned],
                        board, refl, inputString, k + 1, printStatusFlag))

\* serialEncode that puts the rotors back where they were when a character
\* is refused
serialEncodeRollback(m, local, inputString, printStatusFlag) ==
    Bind(SerialLoop([out |-> Ok(<<>>), rotors |-> m.rotorsList, encodedString |-> <<>>,
                     stdout |-> <<>>, turns |-> 0,
                     initialPositions |-> local.initialPositions,
                     hasTurned |-> local.hasTurned],
                    m.plugBoard, m.reflector, inputString, 1, printStatusFlag),
         LAMBDA r : IF r.out.raised # "none"
                    THEN [r EXCEPT !.rotors = m.rotorsList, !.turns = 0]
                    ELSE r)

\* EnigmaMachine.serialEncode(inputString, printStatusFlag): the outcome, the
\* rotor stack the call leaves and the lines it printed
serialEncode(m, local, inputString, printStatusFlag) ==
    SerialLoop([out |-> Ok(<<>>), rotors |-> m.rotorsList, encodedString |-> <<>>,
                stdout |-> <<>>, turns |-> 0,
                initialPositions |-> local.initialPositions,
                hasTurned |-> local.hasTurned],
               m.plugBoard, m.reflector, inputString, 1, printStatusFlag)

\* the inputString arguments of serialEncode
MessageInputs ==
    { <<>>, <<"A", "Z">>, <<"z", "z", "F">>,
      <<"1", "A", "B">>, <<"A", "1", "B">>, <<"A", "B", " ">> }

\* machine.serialEncode(inputString, printStatusFlag), on a machine that
\* setup has just built
SerialEncode ==
    /\ MachineReady
    /\ lastCall.op = "setup"
    /\ \E inputString \in MessageInputs, printStatusFlag \in BOOLEAN :
        \E r \in { serialEncode(Machine(rotorsList, plugBoard, reflector),
                                [initialPositions |-> initialPositions, hasTurned |-> hasTurned],
                                inputString, printStatusFlag) } :
            /\ rotorsList' = r.rotors
            /\ initialPositions' = r.initialPositions
            /\ hasTurned' = r.hasTurned
            /\ keypresses' = keypresses + r.turns
            /\ lastCall' = [op |-> "serialEncode", arg |-> inputString, direction |-> "",
                            raised |-> r.out.raised, value |-> r.out.value,
                            printStatusFlag |-> printStatusFlag, stdout |-> r.stdout]
    /\ UNCHANGED <<plugBoard, reflector>>

NextSerial == Setup \/ SerialEncode

SpecSerial == Init /\ [][NextSerial]_vars

-----------------------------------------------------------------------------
(* The claims about serialEncode *)

\* the positions of a rotor stack, left to right
Positions(rotors) == [i \in 1..Len(rotors) |-> rotors[i].currentPos]

\* what serialEncode does on a second machine in the state this one is in,
\* with its own printStatusFlag
Twin(inputString, printStatusFlag) ==
    serialEncode(Machine(rotorsList, plugBoard, reflector),
                 [initialPositions |-> initialPositions, hasTurned |-> hasTurned],
                 inputString, printStatusFlag)

-----------------------------------------------------------------------------
(* tools.positionLooper on its own, as Rotor.encode and fullEncode call it: *)
(* with base 25                                                            *)

\* the inputNumber arguments lie in -MaxLooper..MaxLooper
MaxLooper == 60

\* positionLooper(inputNumber, 25)
PositionLooperCall ==
    /\ \E inputNumber \in -MaxLooper..MaxLooper :
        lastCall' = [op |-> "positionLooper", arg |-> <<inputNumber, 25>>, direction |-> "",
                     raised |-> "none", value |-> positionLooper(inputNumber, 25)]
    /\ UNCHANGED <<rotorsList, plugBoard, reflector, initialPositions, hasTurned, keypresses>>

NextLooper == PositionLooperCall

SpecLooper == Init /\ [][NextLooper]_vars

\* the last call was positionLooper(n, 25)
Looped(n) == lastCall.op = "positionLooper" /\ lastCall.arg = <<n, 25>>

\* C22: for every n that rotor substitution or stepping can pass
\* (n in -25..50, which holds currentPos + 1 in 1..26), positionLooper(n, 25)
\* returns a value in 0..25 that equals n modulo 26.
C22_WrapsModulo26 ==
    \A n \in -25..50 :
        Looped(n) => (lastCall.value \in 0..25 /\ lastCall.value = n % 26)

\* C23 as stated: positionLooper(n, 25) returns n when 0 <= n <= 25,
\* (n mod 26) + 1 when n < 0 and (n mod 26) - 1 when n > 25.
C23_WrapRuleModulo26 ==
    \A n \in -MaxLooper..MaxLooper :
        Looped(n) =>
            lastCall.value = IF 0 <= n /\ n <= 25 THEN n
                             ELSE IF n < 0 THEN (n % 26) + 1
                             ELSE (n % 26) - 1

\* C23, amended: positionLooper(n, 25) returns n when 0 <= n <= 25,
\* (n mod 25) + 1 when n < 0 and (n mod 25) - 1 when n > 25: the modulus is
\* the base argument, 25.
C23_WrapRuleModuloBase ==
    \A n \in -MaxLooper..MaxLooper :
        Looped(n) =>
            lastCall.value = IF 0 <= n /\ n <= 25 THEN n
                             ELSE IF n < 0 THEN (n % 25) + 1
                             ELSE (n % 25) - 1

\* the helper was called with -1, where the two moduli differ, and returned 25
C23_Witness == Looped(-1) /\ lastCall.value = 25

-----------------------------------------------------------------------------
(* The claims about one rotor's two substitutions *)

\* the direction opposite to the one of the last Rotor.encode call
Opposite == IF lastCall.direction = "right" THEN "left" ELSE "right"

\* C24: at every position 0..25 and ring setting 1..26 of a rotor with a
\* bijective wiring, each substitution is a permutation of the letters and
\* the other direction is its inverse: a letter encoded one way and then the
\* other way comes back, and two different letters never encode to the same
\* letter.
C24_ForwardBackwardInverse ==
    lastCall.op = "Rotor.encode" =>
        /\ lastCall.raised = "none"
        /\ RotorEncode(TheRotor, <<lastCall.value>>, Opposite) = Ok(lastCall.arg[1])
        /\ \A x \in Letters \ {lastCall.arg[1]} :
              RotorEncode(TheRotor, <<x>>, lastCall.direction) # Ok(lastCall.value)

-----------------------------------------------------------------------------
(* The claims about the snapshot, the frame and the failing message *)

\* the letter the rotor shows now is in its notch list
NowOnNotch(r) == PyIn(genericMapping[Pos(r) + 1], RotorAt(r).notch)

\* the rotor was off its notch before the keypress and came onto it
ArrivedOnNotch(r) == ~OnNotch(r) /\ Pos(r) # Pre(r) /\ NowOnNotch(r)

\* C25: snapshot semantics.  The notch tests of a keypress read the positions
\* held before it: a rotor that comes onto its notch letter during the
\* keypress does not make its left neighbour step in that keypress (the
\* neighbour moves only if it is the second rotor and was on its own notch),
\* and when neither of the two rightmost rotors was on its notch before the
\* keypress, the rightmost rotor is the only one whose position changes.
C25_SnapshotSemantics ==
    Keypressed =>
        /\ \A r \in 1..(NumRotors - 1) :
              (ArrivedOnNotch(r) /\ ~(r + 1 = 2 /\ OnNotch(2))) => Stayed(r + 1)
        /\ (~OnNotch(1) /\ ~OnNotch(2)) =>
              (Advanced(1) /\ \A r \in 2..NumRotors : Stayed(r))

\* the rightmost rotor was on its notch and carried the second rotor onto the
\* second rotor's notch letter; the third rotor stayed
C25_Witness ==
    /\ Keypressed /\ OnNotch(1)
    /\ ArrivedOnNotch(2) /\ Advanced(2)
    /\ Stayed(3)

\* the stack holds the same rotors in the same places, each with the wiring,
\* ring setting, notch list, initialPos, name and type it had: only
\* currentPos may differ
FrameKept(before, after) ==
    /\ Len(after) = Len(before)
    /\ \A i \in 1..Len(before) :
          [after[i] EXCEPT !.currentPos = before[i].currentPos] = before[i]

\* C26: fullEncode and serialEncode change nothing but rotor currentPos
\* values.  Every serialEncode step, accepted or refused half way, leaves
\* each rotor's wiring, ring setting, notch list, initialPos and place in the
\* stack, the reflector and the plugboard with its leads and capacity as they
\* were, and a fullEncode call made in any state reached, before or after
\* the message, leaves a stack that differs in currentPos only.
C26_OnlyCurrentPosChanges ==
    /\ [][ lastCall'.op = "serialEncode" =>
              /\ FrameKept(rotorsList, rotorsList')
              /\ plugBoard' = plugBoard
              /\ reflector' = reflector ]_vars
    /\ [](MachineReady =>
              \A inputLetter \in KeyInputs :
                  FrameKept(rotorsList,
                            fullEncode(rotorsList, plugBoard, reflector, inputLetter).rotors))

\* a three-letter message was encoded with printStatusFlag off and every
\* rotor of the stack has left its initial position
C26_Witness ==
    /\ lastCall.op = "serialEncode" /\ lastCall.raised = "none"
    /\ ~lastCall.printStatusFlag /\ Len(lastCall.value) = 3
    /\ \A i \in 1..Len(rotorsList) : rotorsList[i].currentPos # rotorsList[i].initialPos

\* the message holds a character that is not a letter
HasInvalid(s) == \E i \in 1..Len(s) : ~IsLetter(s[i])

\* the number of characters before the first one that is not a letter: the
\* index, counted from 0, of the first invalid character
FirstInvalid(s) == CHOOSE i \in 0..(Len(s) - 1) :
                        ~IsLetter(s[i + 1]) /\ \A j \in 1..i : IsLetter(s[j])

\* the rotor stack after n keypresses, one for each of the first n
\* characters of the message
RECURSIVE AfterKeypresses(_, _, _, _, _)
AfterKeypresses(rotors, board, refl, s, n) ==
    IF n = 0 THEN rotors
    ELSE Bind(AfterKeypresses(rotors, board, refl, s, n - 1), LAMBDA before :
            fullEncode(before, board, refl, <<s[n]>>).rotors)

\* C27: a serialEncode call on a message whose first character that is not a
\* letter is at index i raises InputError and returns no output, and leaves
\* the rotors where i keypresses on the characters before it put them: the
\* valid prefix has turned the rotors (the rightmost has left its place when
\* i > 0) and nothing is rolled back.
C27_FailedMessageKeepsPrefixSteps ==
    [][ (lastCall'.op = "serialEncode" /\ HasInvalid(lastCall'.arg)) =>
            \E i \in { FirstInvalid(lastCall'.arg) } :
                /\ lastCall'.raised = "InputError"
                /\ lastCall'.value = ""
                /\ rotorsList' = AfterKeypresses(rotorsList, plugBoard, reflector,
                                                 lastCall'.arg, i)
                /\ keypresses' = keypresses + i
                /\ i > 0 => PyIndex(rotorsList', -1).currentPos
                                # PyIndex(rotorsList, -1).currentPos
      ]_vars

\* the message 'AB ' was refused at its third character after two keypresses
C27_Witness ==
    /\ lastCall.op = "serialEncode" /\ lastCall.raised = "InputError"
    /\ lastCall.arg = <<"A", "B", " ">> /\ keypresses = 2
    /\ PyIndex(rotorsList, -1).currentPos # PyIndex(rotorsList, -1).initialPos

\* C28: no letter encodes to itself.  On every machine that setup builds from
\* rotors with bijective wirings, a reflector that is an involution without
\* fixed points and a legal plugboard, in every rotor state reached, a
\* keypress on the letter x returns a letter other than x.
C28_NoLetterEncodesToItself ==
    Encoded => lastCall.value # upper(lastCall.arg[1])

====
